---------------------------- MODULE Spec2Model ----------------------------
(***************************************************************************)
(* A model of migrate_collapsible.py: the codemod that rewrites the        *)
(* CollapsibleSection / CollapsibleHeaderButton / CollapsibleContent       *)
(* pattern into a CollapsibleHeader element.                               *)
(*                                                                         *)
(* A file's text is a sequence of tokens.  Every token is a literal piece  *)
(* of the file (a tag, a brace, a whitespace character, one character of a *)
(* title), so that the concatenation of the tokens is the file.  The       *)
(* regular expressions of the script are evaluated on token sequences; the *)
(* tokens are cut so that each character class the expressions use         *)
(* ([^>], [^}], [^<], \s) either holds of a token as a whole or of none of *)
(* its characters but the last ('>' ends a tag token).                     *)
(***************************************************************************)
EXTENDS Integers, Sequences, FiniteSets, TLC

VARIABLES
    disk,              \* the target files: [st, text] per entry of `files`
    pc,                \* position of main() / migrate_file()
    idx,               \* index of the file main()'s loop is at
    migrated,          \* main(): migrated
    content,           \* migrate_file(): content
    original_content,  \* migrate_file(): original_content
    sections_found,    \* migrate_file(): sections_found
    scanned,           \* the text the last re.sub was called on
    conv,              \* the calls of convert_section made by the last re.sub
    found,             \* per file: sections_found of this run (-1: not scanned)
    ret,               \* per file: what migrate_file returned in this run
    wrote,             \* per file: whether write_text was called in this run
    out,               \* what has been printed in this run
    run,               \* number of the current run of the script
    snap,              \* the files as they were when the current run started
    title,             \* classifier input: the stripped title
    cls                \* classifier output: [icon, theme], or NoClass

vars == << disk, pc, idx, migrated, content, original_content, sections_found,
           scanned, conv, found, ret, wrote, out, run, snap, title, cls >>

----------------------------------------------------------------------------
(* Bounds of the model and constants of the program *)

MaxBlocks == 2
MaxRuns == 2
MaxTitleWords == 3

NumFiles == 4
CloseTabs == 4
AttrTabs == 5

----------------------------------------------------------------------------
(* Sequences *)

Min(S) == CHOOSE x \in S : \A y \in S : x <= y

Max(S) == CHOOSE x \in S : \A y \in S : x >= y

Tabs(n) == [k \in 1..n |-> "\t"]

RECURSIVE Flatten(_)
Flatten(ss) == IF ss = << >> THEN << >> ELSE Head(ss) \o Flatten(Tail(ss))

\* s[a..b], empty when b < a
Slice(s, a, b) == IF b < a THEN << >> ELSE SubSeq(s, a, b)

\* the occurrences of `k` in `s` as a contiguous subsequence (Python: k in s)
Contains(s, k) ==
    \E i \in 1..(Len(s) - Len(k) + 1) : SubSeq(s, i, i + Len(k) - 1) = k

----------------------------------------------------------------------------
(* Tokens and the character classes of the regular expressions *)

Whitespace == {" ", "\n", "\t"}

IconTags == {"<FiKey />", "<FiBook />", "<FiSettings />", "<FiSend />",
             "<FiPackage />", "<FiCheckCircle />"}

\* tokens that end in '>' (and hold no other '>')
ClosingAngle == IconTags \cup
    {">", "<CollapsibleSection>", "</CollapsibleSection>",
     "</CollapsibleHeaderButton>", "<CollapsibleTitle>", "</CollapsibleTitle>",
     "<CollapsibleContent>", "</CollapsibleContent>", "</CollapsibleHeader>",
     "<p>", "</p>"}

\* tokens that hold a '<'
OpeningAngle == (ClosingAngle \ {">"}) \cup
    {"<CollapsibleHeaderButton", "<CollapsibleHeader"}

\* tokens in which the text 'CollapsibleHeader' occurs
MentionsCollapsibleHeader ==
    {"<CollapsibleHeaderButton", "</CollapsibleHeaderButton>",
     "<CollapsibleHeader", "</CollapsibleHeader>", " CollapsibleHeader "}

\* tokens in which the text 'collapsedSections' occurs
GuardKeys == {"!collapsedSections.overview"}

\* " from '../../services/<name>';"
ServicesFrom == {" from '../../services/flowHeaderService';",
                 " from '../../services/flowUIService';",
                 " from '../../services/collapsibleHeaderService';"}

IconsFrom == " from 'react-icons/fi';"

\* the least element of K, d when K is empty
MinOr(K, d) == IF K = {} THEN d ELSE Min(K)

\* first index >= p of a token in S, 0 when there is none
FirstAt(t, p, S) == MinOr({k \in p..Len(t) : t[k] \in S}, 0)

\* \s* from p: the index of the first token that is not whitespace
SkipWs(t, p) == MinOr({k \in p..Len(t) : t[k] \notin Whitespace}, Len(t) + 1)

At(t, p, tok) == p >= 1 /\ p <= Len(t) /\ t[p] = tok

IfAt(t, p, tok) == IF At(t, p, tok) THEN p ELSE 0

\* \s* and the literal tok right after the token at p: the index of tok, 0
\* when it is not there (or when p is 0: nothing matched so far)
WsThen(t, p, tok) == IF p = 0 THEN 0 ELSE IfAt(t, SkipWs(t, p + 1), tok)

----------------------------------------------------------------------------
(* Block scanner: the pattern of migrate_file, matched as re does *)

\* \s*\)\s*\}\s*</CollapsibleSection> right after the </CollapsibleContent>
\* at k: the index of the last token matched, 0 when it does not match
TailEnd(t, k) ==
    WsThen(t, WsThen(t, WsThen(t, k, ")"), "}"), "</CollapsibleSection>")

\* [^}]*collapsedSections[^}]*\} from the brace at a, whose first closing
\* brace is at r
KeyedClose(t, a, r) ==
    IF r # 0 /\ \E k \in (a + 1)..(r - 1) : t[k] \in GuardKeys THEN r ELSE 0

BraceClose(t, a) ==
    IF a = 0 THEN 0 ELSE KeyedClose(t, a, FirstAt(t, a + 1, {"}"}))

\* \s*\{[^}]*collapsedSections[^}]*\}\s*&&\s*\(\s*<CollapsibleContent> right
\* after the </CollapsibleHeaderButton> at j: the index of the
\* <CollapsibleContent> matched, 0 when it does not match
GateEnd(t, j) ==
    WsThen(t, WsThen(t, WsThen(t, BraceClose(t, WsThen(t, j, "{")), "&&"), "("),
           "<CollapsibleContent>")

TailOrZero(t, k) == IF k = 0 THEN 0 ELSE TailEnd(t, k)

\* .*?</CollapsibleContent> and the tail, from the <CollapsibleContent> at d:
\* the first </CollapsibleContent> after which the tail matches
ContentEnd(t, d) ==
    IF d = 0 THEN 0
    ELSE TailOrZero(t, MinOr({k \in (d + 1)..Len(t) :
                                 /\ t[k] = "</CollapsibleContent>"
                                 /\ TailEnd(t, k) # 0}, 0))

\* the rest of the pattern after the </CollapsibleHeaderButton> at j
AfterHeader(t, j) == IF j = 0 THEN 0 ELSE ContentEnd(t, GateEnd(t, j))

\* .*?</CollapsibleHeaderButton> after the '>' at g: the first
\* </CollapsibleHeaderButton> after which the rest matches
HeaderClose(t, g) ==
    IF g = 0 THEN 0
    ELSE MinOr({j \in (g + 1)..Len(t) :
                   /\ t[j] = "</CollapsibleHeaderButton>"
                   /\ ContentEnd(t, GateEnd(t, j)) # 0}, 0)

\* [^>]*> after the <CollapsibleHeaderButton at a
OpenTagEnd(t, a) == IF a = 0 THEN 0 ELSE FirstAt(t, a + 1, ClosingAngle)

\* the whole pattern from position i: the index of the last token of the
\* match, 0 when there is no match starting at i
MatchEnd(t, i) ==
    IF At(t, i, "<CollapsibleSection>")
    THEN AfterHeader(t, HeaderClose(t,
             OpenTagEnd(t, WsThen(t, i, "<CollapsibleHeaderButton"))))
    ELSE 0

\* re.findall / re.sub: the leftmost matches, none overlapping another
RECURSIVE ScanFrom(_, _)

ScanSpan(t, i, e) == << [start |-> i, end |-> e] >> \o ScanFrom(t, e + 1)

ScanAt(t, i) == IF i = 0 THEN << >> ELSE ScanSpan(t, i, MatchEnd(t, i))

ScanFrom(t, pos) == ScanAt(t, MinOr({i \in pos..Len(t) : MatchEnd(t, i) # 0}, 0))

FindAll(t) == ScanFrom(t, 1)

----------------------------------------------------------------------------
(* Title classifier: lines 56-77 of convert_section *)

UpperCase == << "A", "B", "C", "D", "E", "F", "G", "H", "I", "J", "K", "L", "M",
                "N", "O", "P", "Q", "R", "S", "T", "U", "V", "W", "X", "Y", "Z" >>

LowerCase == << "a", "b", "c", "d", "e", "f", "g", "h", "i", "j", "k", "l", "m",
                "n", "o", "p", "q", "r", "s", "t", "u", "v", "w", "x", "y", "z" >>

\* str.lower()
Lower(s) ==
    [k \in 1..Len(s) |->
        IF \E u \in 1..26 : UpperCase[u] = s[k]
        THEN LowerCase[CHOOSE u \in 1..26 : UpperCase[u] = s[k]]
        ELSE s[k]]

Keywords1 ==
    << <<"o", "v", "e", "r", "v", "i", "e", "w">>,
       <<"w", "h", "a", "t", " ", "i", "s">>,
       <<"h", "o", "w">>,
       <<"e", "d", "u", "c", "a", "t", "i", "o", "n">>,
       <<"l", "e", "a", "r", "n">>,
       <<"u", "n", "d", "e", "r", "s", "t", "a", "n", "d">> >>

Keywords2 ==
    << <<"c", "o", "n", "f", "i", "g", "u", "r", "a", "t", "i", "o", "n">>,
       <<"c", "r", "e", "d", "e", "n", "t", "i", "a", "l", "s">>,
       <<"s", "e", "t", "t", "i", "n", "g", "s">>,
       <<"p", "a", "r", "a", "m", "e", "t", "e", "r", "s">>,
       <<"a", "d", "v", "a", "n", "c", "e", "d">>,
       <<"p", "k", "c", "e">> >>

Keywords3 ==
    << <<"r", "e", "q", "u", "e", "s", "t">>,
       <<"a", "u", "t", "h", "o", "r", "i", "z", "a", "t", "i", "o", "n">>,
       <<"g", "e", "n", "e", "r", "a", "t", "e">>,
       <<"c", "r", "e", "a", "t", "e">> >>

Keywords4 ==
    << <<"r", "e", "s", "p", "o", "n", "s", "e">>,
       <<"r", "e", "c", "e", "i", "v", "e", "d">>,
       <<"t", "o", "k", "e", "n">>,
       <<"c", "o", "d", "e">>,
       <<"r", "e", "s", "u", "l", "t">> >>

Keywords5 ==
    << <<"c", "o", "m", "p", "l", "e", "t", "e">>,
       <<"s", "u", "c", "c", "e", "s", "s">>,
       <<"d", "o", "n", "e">>,
       <<"n", "e", "x", "t", " ", "s", "t", "e", "p", "s">> >>

Keywords6 ==
    << <<"d", "e", "e", "p", " ", "d", "i", "v", "e">>,
       <<"d", "e", "t", "a", "i", "l", "s">> >>

\* any(word in title.lower() for word in kws)
AnyIn(kws, ttl) == \E k \in 1..Len(kws) : Contains(Lower(ttl), kws[k])

ThemeYellow == "theme=\"yellow\""
ThemeOrange == "theme=\"orange\""
ThemeBlue == "theme=\"blue\""
ThemeGreen == "theme=\"green\""

ClassifySwapped(ttl) ==
    IF AnyIn(Keywords1, ttl) THEN [icon |-> "<FiBook />", theme |-> ThemeYellow]
    ELSE IF AnyIn(Keywords4, ttl) THEN [icon |-> "<FiPackage />", theme |-> ""]
    ELSE IF AnyIn(Keywords3, ttl) THEN [icon |-> "<FiSend />", theme |-> ThemeBlue]
    ELSE IF AnyIn(Keywords2, ttl) THEN [icon |-> "<FiSettings />", theme |-> ThemeOrange]
    ELSE IF AnyIn(Keywords5, ttl) THEN [icon |-> "<FiCheckCircle />", theme |-> ThemeGreen]
    ELSE IF AnyIn(Keywords6, ttl) THEN [icon |-> "<FiBook />", theme |-> ThemeGreen]
    ELSE [icon |-> "<FiSettings />", theme |-> ""]

\* the if / elif chain
Classify(ttl) ==
    IF AnyIn(Keywords1, ttl) THEN [icon |-> "<FiBook />", theme |-> ThemeYellow]
    ELSE IF AnyIn(Keywords2, ttl) THEN [icon |-> "<FiSettings />", theme |-> ThemeOrange]
    ELSE IF AnyIn(Keywords3, ttl) THEN [icon |-> "<FiSend />", theme |-> ThemeBlue]
    ELSE IF AnyIn(Keywords4, ttl) THEN [icon |-> "<FiPackage />", theme |-> ""]
    ELSE IF AnyIn(Keywords5, ttl) THEN [icon |-> "<FiCheckCircle />", theme |-> ThemeGreen]
    ELSE IF AnyIn(Keywords6, ttl) THEN [icon |-> "<FiBook />", theme |-> ThemeGreen]
    ELSE [icon |-> "<FiSettings />", theme |-> ""]

----------------------------------------------------------------------------
(* Field extractor and block rebuilder: convert_section *)

\* ([^<]+)</CollapsibleTitle> after the icon at r, the next '<' being at r2
TitleAfterIcon(m, r, r2) ==
    IF r2 # 0 /\ m[r2] = "</CollapsibleTitle>" /\ r2 > r + 1
    THEN << r + 1, r2 - 1 >> ELSE << >>

\* \s*(?:<Fi\w+\s*/>\s*)?([^<]+)</CollapsibleTitle> from q, the next '<'
\* being at r
TitleFrom(m, q, r) ==
    IF r = 0 THEN << >>
    ELSE IF m[r] = "</CollapsibleTitle>"
         THEN IF r > q THEN << q, r - 1 >> ELSE << >>
    ELSE IF m[r] \in IconTags /\ \A k \in q..(r - 1) : m[k] \in Whitespace
         THEN TitleAfterIcon(m, r, FirstAt(m, r + 1, OpeningAngle))
    ELSE << >>

\* the title pattern from the <CollapsibleTitle> at p: the bounds << lo, hi >>
\* of group 1, << >> when it does not match.  The whitespace that \s* takes
\* is left in the group: line 54 strips it.
TitleGroup(m, p) == TitleFrom(m, p + 1, FirstAt(m, p + 1, OpeningAngle))

TitleGroupOr(m, p) == IF p = 0 THEN << >> ELSE TitleGroup(m, p)

\* re.search of the title pattern: the first <CollapsibleTitle> it matches at
TitleMatch(m) ==
    TitleGroupOr(m, MinOr({p \in 1..Len(m) :
                              /\ m[p] = "<CollapsibleTitle>"
                              /\ TitleGroup(m, p) # << >>}, 0))

StripTo(s, K) == IF K = {} THEN << >> ELSE SubSeq(s, Min(K), Max(K))

\* str.strip()
Strip(s) == StripTo(s, {k \in 1..Len(s) : s[k] \notin Whitespace})

ContentSpan(o, e) == IF e = 0 THEN << >> ELSE << o + 1, e - 1 >>

ContentGroup(m, o) ==
    IF o = 0 THEN << >>
    ELSE ContentSpan(o, FirstAt(m, o + 1, {"</CollapsibleContent>"}))

\* re.search of <CollapsibleContent>(.*?)</CollapsibleContent>: the bounds of
\* group 1, << >> when it does not match
ContentMatch(m) == ContentGroup(m, FirstAt(m, 1, {"<CollapsibleContent>"}))

\* the f-string of lines 87-94
NewSection(ttl, icon, theme, inner) ==
    << "<CollapsibleHeader", "\n" >> \o Tabs(AttrTabs)
    \o << "title=\"" >> \o ttl \o << "\"", "\n" >> \o Tabs(AttrTabs)
    \o << "icon=", "{", icon, "}" >>
    \o (IF theme # "" THEN << "\n" >> \o Tabs(AttrTabs) \o << theme >> ELSE << >>)
    \o << "\n" >> \o Tabs(AttrTabs)
    \o << "defaultCollapsed=", "{", "false", "}", "\n" >> \o Tabs(CloseTabs)
    \o << ">", "\n" >> \o inner \o << "\n" >> \o Tabs(CloseTabs)
    \o << "</CollapsibleHeader>" >>

Rebuilt(ttl, c, inner) ==
    [parsed |-> TRUE, title |-> ttl, icon |-> c.icon, theme |-> c.theme,
     inner |-> inner, text |-> NewSection(ttl, c.icon, c.theme, inner)]

Classified(ttl, inner) == Rebuilt(ttl, Classify(ttl), inner)

\* the call with the two searches made: tg and cg are the groups found
Converted(m, tg, cg) ==
    IF tg = << >> \/ cg = << >>
    THEN [parsed |-> FALSE, title |-> << >>, icon |-> "", theme |-> "",
          inner |-> << >>, text |-> m]
    ELSE Classified(Strip(Slice(m, tg[1], tg[2])), Slice(m, cg[1], cg[2]))

\* convert_section(match): the call's values and the text it returns
ConvertSection(m) == Converted(m, TitleMatch(m), ContentMatch(m))

\* a call of convert_section by re.sub, with the span it replaced and the
\* place of its replacement in the result
CallRecord(sp, shift, c) ==
    [start |-> sp.start, end |-> sp.end,
     outStart |-> sp.start + shift,
     outEnd |-> sp.start + shift + Len(c.text) - 1,
     parsed |-> c.parsed, title |-> c.title, icon |-> c.icon,
     theme |-> c.theme, inner |-> c.inner, text |-> c.text]

\* re.sub(pattern, convert_section, content): the calls made
RECURSIVE Calls(_, _, _, _)

CallsWith(t, spans, k, shift, c) ==
    << CallRecord(spans[k], shift, c) >>
    \o Calls(t, spans, k + 1,
             shift + Len(c.text) - (spans[k].end - spans[k].start + 1))

Calls(t, spans, k, shift) ==
    IF k > Len(spans) THEN << >>
    ELSE CallsWith(t, spans, k, shift,
                   ConvertSection(SubSeq(t, spans[k].start, spans[k].end)))

\* the result of re.sub: the text between the matches, and the replacements
RECURSIVE Splice(_, _, _, _)
Splice(t, calls, k, pos) ==
    IF k > Len(calls) THEN Slice(t, pos, Len(t))
    ELSE Slice(t, pos, calls[k].start - 1) \o calls[k].text
         \o Splice(t, calls, k + 1, calls[k].end + 1)

----------------------------------------------------------------------------
(* Import normalizer: add_imports *)

UnifiedImport ==
    << "import ", "{", " CollapsibleHeader ", "}",
       " from '../../services/collapsibleHeaderService';" >>

icons_to_add == << "FiBook", "FiPackage", "FiSend", "FiSettings" >>

\* 'CollapsibleHeader' in content
AlreadyImported(t) == \E k \in 1..Len(t) : t[k] \in MentionsCollapsibleHeader

\* the index of the line break that ends the line of position a
LineEnd(t, a) == MinOr({k \in a..Len(t) : t[k] = "\n"}, Len(t) + 1)

\* the places on the line of the 'import' at a where
\* from '../../services/[^']+'; ends
ServiceEnds(t, a) ==
    {e \in (a + 1)..(LineEnd(t, a) - 1) : t[e] \in ServicesFrom}

InsertAfter(t, e) ==
    SubSeq(t, 1, e) \o << "\n" >> \o UnifiedImport \o Slice(t, e + 1, Len(t))

InsertAtImport(t, a) ==
    IF a = 0 THEN t ELSE InsertAfter(t, Max(ServiceEnds(t, a)))

\* re.sub(r"(import.*from '../../services/[^']+';)", add_import, content,
\* count=1): '.' stays on the line, .* is greedy, only the first match counts
InsertServiceImport(t) ==
    InsertAtImport(t, MinOr({a \in 1..Len(t) :
                                t[a] = "import " /\ ServiceEnds(t, a) # {}}, 0))

\* import \{[^}]+\} from 'react-icons/fi'; at a, the first closing brace
\* after the opening one being at r
IconImportAt(t, a, r) ==
    t[a] = "import " /\ At(t, a + 1, "{") /\ r > a + 2 /\ At(t, r + 1, IconsFrom)

IconImportBounds(t, a) ==
    IF a = 0 THEN << >> ELSE << a, FirstAt(t, a + 2, {"}"}) + 1 >>

\* re.search(r"(import \{[^}]+\} from 'react-icons/fi';)", content): the
\* bounds of the first match, << >> when there is none
IconImportMatch(t) ==
    IconImportBounds(t, MinOr({a \in 1..Len(t) :
                                  IconImportAt(t, a, FirstAt(t, a + 2, {"}"}))}, 0))

\* [icon for icon in icons_to_add if icon not in existing_icons]
IconsNeeded(existing) ==
    LET Absent(icon) == ~ \E k \in 1..Len(existing) : existing[k] = icon
    IN  SelectSeq(icons_to_add, Absent)

\* ', '.join(names)
RECURSIVE Join(_)
Join(names) ==
    IF Len(names) = 0 THEN << >>
    ELSE IF Len(names) = 1 THEN names
    ELSE << Head(names), ",", " " >> \o Join(Tail(names))

\* str.replace(old, new): every occurrence, left to right
RECURSIVE ReplaceAll(_, _, _)

ReplaceAt(t, old, new, k) ==
    IF k = 0 THEN t
    ELSE Slice(t, 1, k - 1) \o new
         \o ReplaceAll(Slice(t, k + Len(old), Len(t)), old, new)

ReplaceAll(t, old, new) ==
    ReplaceAt(t, old, new,
              MinOr({k \in 1..(Len(t) - Len(old) + 1) :
                        SubSeq(t, k, k + Len(old) - 1) = old}, 0))

\* existing_icons.replace('} from', ...), line 39
NewImport(existing, needed) ==
    SubSeq(existing, 1, Len(existing) - 2)
    \o << ",", "\n", "\t" >> \o Join(needed) \o << ",", "\n", "}", IconsFrom >>

ExtendWith(t, existing, needed) ==
    IF needed = << >> THEN t
    ELSE ReplaceAll(t, existing, NewImport(existing, needed))

Extend(t, existing) == ExtendWith(t, existing, IconsNeeded(existing))

ExtendAt(t, im) == IF im = << >> THEN t ELSE Extend(t, SubSeq(t, im[1], im[2]))

\* lines 26-41, on the text the import was inserted into
AddIcons(t) == ExtendAt(t, IconImportMatch(t))

add_imports(t) ==
    IF AlreadyImported(t) THEN t ELSE AddIcons(InsertServiceImport(t))

IconPrintsOf(needed) ==
    IF needed = << >> THEN << >>
    ELSE << [kind |-> "AddedIcons", n |-> Len(needed)] >>

IconPrintsAt(t, im) ==
    IF im = << >> THEN << >>
    ELSE IconPrintsOf(IconsNeeded(SubSeq(t, im[1], im[2])))

IconPrints(t) == IconPrintsAt(t, IconImportMatch(t))

\* what add_imports prints, lines 15 and 41
ImportPrints(t) ==
    IF AlreadyImported(t) THEN << [kind |-> "AlreadyImported", n |-> 0] >>
    ELSE IconPrints(InsertServiceImport(t))

----------------------------------------------------------------------------
(* The files the script is run on *)

ReactImport == << "import ", "React", " from 'react';", "\n" >>

IconImport ==
    << "import ", "{", " ", "FiKey", ",", " ", "FiCheckCircle", " ", "}",
       IconsFrom, "\n" >>

ServiceImport(svc) == << "import ", "{", " FlowHeader ", "}", svc, "\n" >>

SvcA == " from '../../services/flowHeaderService';"
SvcB == " from '../../services/flowUIService';"

Headers ==
    { << >>,
      ReactImport \o IconImport \o ServiceImport(SvcA),
      ReactImport \o ServiceImport(SvcA),
      ReactImport \o IconImport \o ServiceImport(SvcA) \o ServiceImport(SvcB),
      ReactImport \o IconImport \o ServiceImport(SvcA)
          \o UnifiedImport \o << "\n" >> }

WOverview == << "O", "v", "e", "r", "v", "i", "e", "w" >>
WResult == << "R", "e", "s", "u", "l", "t" >>

\* the header control of a block whose wrapper stands at depth n
HeaderButton(n, ttl, decorated) ==
    << "\n" >> \o Tabs(n + 1)
    \o << "<CollapsibleHeaderButton", " onClick=", "{", "toggle", "}", ">" >>
    \o (IF ttl = << >> THEN << "x" >>
        ELSE << "<CollapsibleTitle>" >>
             \o (IF decorated THEN << "<FiKey />", " " >> ELSE << >>)
             \o ttl \o << "</CollapsibleTitle>" >>)
    \o << "</CollapsibleHeaderButton>", "\n" >> \o Tabs(n + 1)

\* the gate in the form the pattern asks for, and in the form of a JSX
\* conditional, whose brace closes after the content
Gate == << "{", "!collapsedSections.overview", "}", " ", "&&", " ", "(" >>
JsxGate == << "{", "!collapsedSections.overview", " ", "&&", " ", "(" >>

Para == << "<p>", "x", "</p>" >>

Terminator(n) ==
    << "\n" >> \o Tabs(n + 1) \o << ")", "}", "\n" >> \o Tabs(n)
    \o << "</CollapsibleSection>" >>

Kinds == {"good", "untitled", "unterminated", "nestedtags", "nestedblock", "jsx"}

Block(kind, n) ==
    LET o == << "<CollapsibleSection>" >>
        plain == << "<CollapsibleContent>" >> \o Para \o << "</CollapsibleContent>" >>
        inner == o \o HeaderButton(n + 1, WResult, FALSE) \o Gate \o plain
                 \o Terminator(n + 1)
    IN  CASE kind = "good" ->
               o \o HeaderButton(n, WOverview, TRUE) \o Gate \o plain \o Terminator(n)
          [] kind = "untitled" ->
               o \o HeaderButton(n, << >>, FALSE) \o Gate \o plain \o Terminator(n)
          [] kind = "unterminated" ->
               o \o HeaderButton(n, WOverview, TRUE) \o Gate \o plain
          [] kind = "nestedtags" ->
               o \o HeaderButton(n, WOverview, TRUE) \o Gate
               \o << "<CollapsibleContent>", "<CollapsibleContent>" >> \o Para
               \o << "</CollapsibleContent>", "y", "</CollapsibleContent>" >>
               \o Terminator(n)
          [] kind = "nestedblock" ->
               o \o HeaderButton(n, WOverview, TRUE) \o Gate
               \o << "<CollapsibleContent>" >> \o inner
               \o << "</CollapsibleContent>" >> \o Terminator(n)
          [] kind = "jsx" ->
               o \o HeaderButton(n, WOverview, TRUE) \o JsxGate \o plain
               \o Terminator(n)

Body(ks, n) ==
    Flatten([k \in 1..Len(ks) |-> << "\n" >> \o Tabs(n) \o Block(ks[k], n)])

KindSeqs == UNION {[1..m -> Kinds] : m \in 0..MaxBlocks}

\* depths of the outer wrapper: the depth the rebuilder writes, and another
Indents == {CloseTabs - 2, CloseTabs}

Missing == [st |-> "missing", text |-> << >>]
Unreadable == [st |-> "unreadable", text |-> << >>]
File(t) == [st |-> "ok", text |-> t]

\* one flow file of any shape
FlowFiles == {File(h \o Body(ks, n)) : h \in Headers, ks \in KindSeqs, n \in Indents}

\* the shapes of the files of a batch
BatchFiles ==
    { Missing, Unreadable,
      File(ReactImport \o IconImport \o Body(<< "good" >>, CloseTabs)),
      File(ReactImport \o IconImport \o Body(<< "untitled" >>, CloseTabs)) }

----------------------------------------------------------------------------
(* Migration orchestrator: main and migrate_file *)

Files == 1..NumFiles

NoClass == [icon |-> "", theme |-> ""]

Say(kind, n) == << [kind |-> kind, n |-> n] >>

\* the values a run of the script starts with
RunStart ==
    /\ pc = "start"
    /\ idx = 0
    /\ migrated = 0
    /\ content = << >>
    /\ original_content = << >>
    /\ sections_found = 0
    /\ scanned = << >>
    /\ conv = << >>
    /\ found = [f \in Files |-> -1]
    /\ ret = [f \in Files |-> "none"]
    /\ wrote = [f \in Files |-> FALSE]
    /\ out = << >>

\* one flow file of any shape among the four targets, or a batch of files
Init ==
    /\ \/ \E f \in FlowFiles \cup {Unreadable} :
             disk = << f, Missing, Missing, Missing >>
       \/ disk \in [Files -> BatchFiles]
    /\ RunStart
    /\ run = 1
    /\ snap = disk
    /\ title = << >>
    /\ cls = NoClass

\* main(), lines 143-146
MainStart ==
    /\ pc = "start"
    /\ pc' = "loop"
    /\ idx' = 1
    /\ migrated' = 0
    /\ out' = out \o Say("Starting", 0)
    /\ UNCHANGED << disk, content, original_content, sections_found, scanned, conv,
                    found, ret, wrote, run, snap, title, cls >>

\* main(), lines 149-151: the path does not exist
FileNotFound ==
    /\ pc = "loop"
    /\ idx <= NumFiles
    /\ disk[idx].st = "missing"
    /\ out' = out \o Say("FileNotFound", idx)
    /\ ret' = [ret EXCEPT ![idx] = "skipped"]
    /\ idx' = idx + 1
    /\ UNCHANGED << disk, pc, migrated, content, original_content,
                    sections_found, scanned, conv, found, wrote, run, snap, title, cls >>

\* migrate_file(), lines 100-103
ReadText ==
    /\ pc = "loop"
    /\ idx <= NumFiles
    /\ disk[idx].st = "ok"
    /\ out' = out \o Say("Migrating", idx)
    /\ content' = disk[idx].text
    /\ original_content' = disk[idx].text
    /\ pc' = "imports"
    /\ UNCHANGED << disk, idx, migrated, sections_found, scanned, conv, found, ret,
                    wrote, run, snap, title, cls >>

\* migrate_file(), line 102: read_text raises; nothing in migrate_file or
\* main catches it, and the script ends with the traceback
ReadFails ==
    /\ pc = "loop"
    /\ idx <= NumFiles
    /\ disk[idx].st = "unreadable"
    /\ out' = out \o Say("Migrating", idx)
    /\ ret' = [ret EXCEPT ![idx] = "raised"]
    /\ pc' = "aborted"
    /\ UNCHANGED << disk, idx, migrated, content, original_content,
                    sections_found, scanned, conv, found, wrote, run, snap, title, cls >>

\* migrate_file(), line 106
AddImports ==
    /\ pc = "imports"
    /\ content' = add_imports(content)
    /\ out' = out \o ImportPrints(content)
    /\ pc' = "scan"
    /\ UNCHANGED << disk, idx, migrated, original_content, sections_found,
                    scanned, conv, found, ret, wrote, run, snap, title, cls >>

\* migrate_file(), lines 112-117
CountSections ==
    /\ pc = "scan"
    /\ sections_found' = Len(FindAll(content))
    /\ found' = [found EXCEPT ![idx] = sections_found']
    /\ \/ /\ sections_found' = 0
          /\ out' = out \o Say("Found", 0) \o Say("NoSections", 0)
          /\ ret' = [ret EXCEPT ![idx] = "False"]
          /\ idx' = idx + 1
          /\ pc' = "loop"
       \/ /\ sections_found' > 0
          /\ out' = out \o Say("Found", sections_found')
          /\ pc' = "convert"
          /\ UNCHANGED << ret, idx >>
    /\ UNCHANGED << disk, migrated, content, original_content, scanned, conv, wrote,
                    run, snap, title, cls >>

\* migrate_file(), line 120
ConvertSections ==
    /\ pc = "convert"
    /\ scanned' = content
    /\ conv' = Calls(content, FindAll(content), 1, 0)
    /\ content' = Splice(content, conv', 1, 1)
    /\ pc' = "write"
    /\ UNCHANGED << disk, idx, migrated, original_content, sections_found,
                    found, ret, wrote, out, run, snap, title, cls >>

WriteAlways(new, old) == TRUE

\* line 126: content != original_content
ShouldWrite(new, old) == new # old

\* migrate_file(), lines 126-129, and main(), lines 153-154
WriteBack ==
    /\ pc = "write"
    /\ ShouldWrite(content, original_content)
    /\ disk' = [disk EXCEPT ![idx].text = content]
    /\ wrote' = [wrote EXCEPT ![idx] = TRUE]
    /\ out' = out \o Say("Migrated", sections_found)
    /\ ret' = [ret EXCEPT ![idx] = "True"]
    /\ migrated' = migrated + 1
    /\ idx' = idx + 1
    /\ pc' = "loop"
    /\ UNCHANGED << content, original_content, sections_found, scanned, conv, found,
                    run, snap, title, cls >>

\* migrate_file(), lines 130-132
NoChanges ==
    /\ pc = "write"
    /\ ~ ShouldWrite(content, original_content)
    /\ out' = out \o Say("NoChanges", 0)
    /\ ret' = [ret EXCEPT ![idx] = "False"]
    /\ idx' = idx + 1
    /\ pc' = "loop"
    /\ UNCHANGED << disk, migrated, content, original_content, sections_found,
                    scanned, conv, found, wrote, run, snap, title, cls >>

\* main(), lines 156-159
Summary ==
    /\ pc = "loop"
    /\ idx > NumFiles
    /\ out' = out \o Say("Complete", migrated)
    /\ pc' = "done"
    /\ UNCHANGED << disk, idx, migrated, content, original_content,
                    sections_found, scanned, conv, found, ret, wrote, run, snap, title,
                    cls >>

\* the script is run again on the files the last run left
Rerun ==
    /\ pc \in {"done", "aborted"}
    /\ run < MaxRuns
    /\ run' = run + 1
    /\ snap' = disk
    /\ pc' = "start"
    /\ idx' = 0
    /\ migrated' = 0
    /\ content' = << >>
    /\ original_content' = << >>
    /\ sections_found' = 0
    /\ scanned' = << >>
    /\ conv' = << >>
    /\ found' = [f \in Files |-> -1]
    /\ ret' = [f \in Files |-> "none"]
    /\ wrote' = [f \in Files |-> FALSE]
    /\ out' = << >>
    /\ UNCHANGED << disk, title, cls >>

Next ==
    \/ MainStart
    \/ FileNotFound
    \/ ReadText
    \/ ReadFails
    \/ AddImports
    \/ CountSections
    \/ ConvertSections
    \/ WriteBack
    \/ NoChanges
    \/ Summary
    \/ Rerun

Spec == Init /\ [][Next]_vars

----------------------------------------------------------------------------
(* The classifier on its own: convert_section with a title extracted *)

WConfiguration == << "C", "o", "n", "f", "i", "g", "u", "r", "a", "t", "i", "o", "n" >>
WRequest == << "R", "e", "q", "u", "e", "s", "t" >>
WToken == << "T", "o", "k", "e", "n" >>
WResponse == << "R", "e", "s", "p", "o", "n", "s", "e" >>
WDone == << "D", "o", "n", "e" >>
WDetails == << "D", "e", "t", "a", "i", "l", "s" >>
WShow == << "S", "h", "o", "w" >>
WFlow == << "F", "l", "o", "w" >>
WWhat == << "W", "h", "a", "t" >>
WIs == << "i", "s" >>

TitleWords == { WOverview, WConfiguration, WRequest, WToken, WResponse, WDone,
                WDetails, WShow, WFlow, WWhat, WIs }

RECURSIVE JoinWords(_)
JoinWords(ws) ==
    IF Len(ws) = 1 THEN ws[1] ELSE ws[1] \o << " " >> \o JoinWords(Tail(ws))

Titles == { JoinWords(ws) : ws \in UNION {[1..m -> TitleWords] : m \in 1..MaxTitleWords} }

InitClassify ==
    /\ title \in Titles
    /\ cls = NoClass
    /\ pc = "classify"
    /\ disk = [f \in Files |-> Missing]
    /\ snap = disk
    /\ run = 1
    /\ idx = 0
    /\ migrated = 0
    /\ content = << >>
    /\ original_content = << >>
    /\ sections_found = 0
    /\ scanned = << >>
    /\ conv = << >>
    /\ found = [f \in Files |-> -1]
    /\ ret = [f \in Files |-> "none"]
    /\ wrote = [f \in Files |-> FALSE]
    /\ out = << >>

\* convert_section(), lines 56-77
ClassifyTitle ==
    /\ pc = "classify"
    /\ cls' = Classify(title)
    /\ pc' = "classified"
    /\ UNCHANGED << disk, idx, migrated, content, original_content,
                    sections_found, scanned, conv, found, ret, wrote, out, run, snap,
                    title >>

NextClassify == ClassifyTitle

SpecClassify == InitClassify /\ [][NextClassify]_vars

----------------------------------------------------------------------------
(* Properties *)

Last(q) == q[Len(q)]

Processed(f) == ret[f] \in {"True", "False"}

\* C1: running the script a second time on the files a first run left
\* changes no file: a later run leaves every file as it found it.
C1_Idempotent == run > 1 => disk = snap

\* the depth-tracked end of the tag opened at d: the first `close` after d
\* with as many `open` as `close` between, 0 when there is none
MatchingClose(t, d, open, close) ==
    MinOr({k \in (d + 1)..Len(t) :
              /\ t[k] = close
              /\ Cardinality({a \in (d + 1)..(k - 1) : t[a] = open})
                    = Cardinality({b \in (d + 1)..(k - 1) : t[b] = close})}, 0)

\* the <CollapsibleContent> of the block that opens at i: the first one after
\* the end of its own header control
OwnContentOpen(t, i) ==
    MinOr({k \in 1..Len(t) :
              /\ t[k] = "<CollapsibleContent>"
              /\ k > MatchingClose(t, WsThen(t, i, "<CollapsibleHeaderButton"),
                                   "<CollapsibleHeaderButton",
                                   "</CollapsibleHeaderButton>")}, 0)

\* everything between the block's own <CollapsibleContent> and the
\* </CollapsibleContent> that closes it
OwnInner(t, i) ==
    Slice(t, OwnContentOpen(t, i) + 1,
          MatchingClose(t, OwnContentOpen(t, i), "<CollapsibleContent>",
                        "</CollapsibleContent>") - 1)

\* C2: for every block converted, the text put between the new tags is the
\* whole inner content of the original block, from its own
\* <CollapsibleContent> to the matching </CollapsibleContent>, also when the
\* inner content holds tags of the same name.
C2_ContentPreserved ==
    \A k \in 1..Len(conv) :
        conv[k].parsed => conv[k].inner = OwnInner(scanned, conv[k].start)

\* the six-rule table, in priority order
RuleTable ==
    << [kws |-> Keywords1, icon |-> "<FiBook />", theme |-> ThemeYellow],
       [kws |-> Keywords2, icon |-> "<FiSettings />", theme |-> ThemeOrange],
       [kws |-> Keywords3, icon |-> "<FiSend />", theme |-> ThemeBlue],
       [kws |-> Keywords4, icon |-> "<FiPackage />", theme |-> ""],
       [kws |-> Keywords5, icon |-> "<FiCheckCircle />", theme |-> ThemeGreen],
       [kws |-> Keywords6, icon |-> "<FiBook />", theme |-> ThemeGreen] >>

DefaultClass == [icon |-> "<FiSettings />", theme |-> ""]

PairOf(r) == [icon |-> RuleTable[r].icon, theme |-> RuleTable[r].theme]

Matching(ttl) == {r \in 1..Len(RuleTable) : AnyIn(RuleTable[r].kws, ttl)}

TokenResponseConfiguration == JoinWords(<< WToken, WResponse, WConfiguration >>)

\* C3: a title is given the icon and theme of the lowest-numbered rule of the
\* table that matches it, and the default pair when none matches; "Token
\* Response Configuration" falls under rule 2, not rule 4.
C3_FirstRuleWins ==
    pc = "classified" =>
        /\ cls = IF Matching(title) = {} THEN DefaultClass
                 ELSE PairOf(Min(Matching(title)))
        /\ title = TokenResponseConfiguration => cls = PairOf(2)

\* a title that matches rule 2 and rule 4 has been classified
C3_Witness ==
    /\ pc = "classified"
    /\ title = TokenResponseConfiguration
    /\ {2, 4} \subseteq Matching(title)
    /\ cls = PairOf(2)

\* the positions where a candidate block opens
Openers(t) ==
    {i \in 1..Len(t) :
        t[i] = "<CollapsibleSection>" /\ WsThen(t, i, "<CollapsibleHeaderButton") # 0}

\* a candidate whose own </CollapsibleSection> is missing
Unterminated(t, i) ==
    MatchingClose(t, i, "<CollapsibleSection>", "</CollapsibleSection>") = 0

\* C4: a candidate block whose title or content cannot be extracted, or whose
\* terminator is missing, is left as it was in the output, the other blocks
\* are still processed, and the report counts it as found but not as
\* converted and carries a warning for it.
C4_UnparsedBlockSafe ==
    pc \in {"write", "loop", "done"} /\ conv # << >> =>
        /\ \A k \in 1..Len(conv) :
              ~ conv[k].parsed =>
                 /\ conv[k].text = SubSeq(scanned, conv[k].start, conv[k].end)
                 /\ pc # "write" => \E e \in 1..Len(out) : out[e].kind = "Warning"
        /\ \A i \in Openers(scanned) :
              Unterminated(scanned, i) =>
                 \A k \in 1..Len(conv) :
                    conv[k].parsed => ~ (conv[k].start <= i /\ i <= conv[k].end)
        /\ Last(out).kind = "Migrated" =>
              Last(out).n = Cardinality({k \in 1..Len(conv) : conv[k].parsed})

\* the declarations of the unified component in a text
UnifiedImports(t) ==
    {k \in 1..Len(t) :
        k + Len(UnifiedImport) - 1 <= Len(t)
        /\ SubSeq(t, k, k + Len(UnifiedImport) - 1) = UnifiedImport}

MaxOr(K, d) == IF K = {} THEN d ELSE Max(K)

LastServiceImport(t) == MaxOr({e \in 1..Len(t) : t[e] \in ServicesFrom}, 0)

LastImportEnd(t) ==
    MaxOr({LineEnd(t, a) - 1 : a \in {b \in 1..Len(t) : t[b] = "import "}}, 0)

\* the token the claim puts the new declaration after: the end of the last
\* import of a services module, or of the last import when there is none
InsertionPoint(t) ==
    IF LastServiceImport(t) # 0 THEN LastServiceImport(t) ELSE LastImportEnd(t)

\* a text without the declaration that stands at k on a line of its own
Without(t, k) ==
    SubSeq(t, 1, k - 2) \o Slice(t, k + Len(UnifiedImport), Len(t))

\* a text in which the scanner finds a block that convert_section rebuilds
WellFormedIn(t) ==
    \E k \in 1..Len(Calls(t, FindAll(t), 1, 0)) :
        Calls(t, FindAll(t), 1, 0)[k].parsed

\* C5: a file with a well-formed deprecated block and no import of the
\* unified component comes out with exactly one new import declaration of
\* CollapsibleHeader, on the line after its last import of a services module
\* (after its last import when it has none).
C5_ImportInserted ==
    \A f \in Files :
        /\ Processed(f)
        /\ WellFormedIn(snap[f].text)
        /\ UnifiedImports(snap[f].text) = {}
        => \E k \in 1..Len(disk[f].text) :
              /\ UnifiedImports(disk[f].text) = {k}
              /\ k - 2 = InsertionPoint(Without(disk[f].text, k))

\* C6: a file is written only when the final text differs from the text
\* read; otherwise it stays as it was; and migrate_file returns True exactly
\* when it wrote the file.
C6_WriteOnlyOnChange ==
    \A f \in Files :
        /\ wrote[f] <=> ret[f] = "True"
        /\ wrote[f] => disk[f].text # snap[f].text
        /\ ~ wrote[f] => disk[f] = snap[f]

\* a run has ended in which one file was written, and another had matches
\* that were all left as they were and was not written
C6_Witness ==
    /\ pc = "done"
    /\ \E f \in Files : wrote[f] /\ ret[f] = "True" /\ disk[f] # snap[f]
    /\ \E g \in Files : found[g] > 0 /\ ret[g] = "False" /\ ~ wrote[g]

\* C7: a file that is missing or cannot be read never aborts the batch: once
\* the run has ended, every file after it has been processed and the summary
\* has been printed.
C7_FailureIsolated ==
    /\ pc # "aborted"
    /\ pc = "done" /\ (\E f \in Files : disk[f].st # "ok") =>
          /\ \A g \in Files : ret[g] # "none"
          /\ Last(out).kind = "Complete"

IconNames == [tag \in IconTags |->
    CASE tag = "<FiKey />" -> "FiKey"
      [] tag = "<FiBook />" -> "FiBook"
      [] tag = "<FiSettings />" -> "FiSettings"
      [] tag = "<FiSend />" -> "FiSend"
      [] tag = "<FiPackage />" -> "FiPackage"
      [] tag = "<FiCheckCircle />" -> "FiCheckCircle"]

\* the icons the converted blocks of a text refer to
IconsUsed(t) == {t[k + 2] : k \in {a \in 1..(Len(t) - 2) : t[a] = "icon="}}

\* the names the icon-import declaration of a text declares
IconsDeclared(t) ==
    IF IconImportMatch(t) = << >> THEN {}
    ELSE {t[k] : k \in IconImportMatch(t)[1]..IconImportMatch(t)[2]}

\* C8: a file with no icon-import declaration is skipped with no write, so no
\* file is written in which a converted block refers to an icon the file
\* does not declare.
C8_NoUndeclaredIcon ==
    \A f \in Files :
        wrote[f] =>
            /\ IconImportMatch(snap[f].text) # << >>
            /\ \A tag \in IconsUsed(disk[f].text) :
                  IconNames[tag] \in IconsDeclared(disk[f].text)

\* the words of a text: its maximal runs of characters other than spaces
RECURSIVE Words(_)
Words(s) ==
    IF s = << >> THEN << >>
    ELSE IF Head(s) = " " THEN Words(Tail(s))
    ELSE LET n == MinOr({k \in 1..Len(s) : s[k] = " "}, Len(s) + 1)
         IN  << SubSeq(s, 1, n - 1) >> \o Words(Slice(s, n, Len(s)))

\* one of the keywords is a word, or a sequence of words, of the title
WordIn(kws, ttl) ==
    \E k \in 1..Len(kws) : Contains(Words(Lower(ttl)), Words(kws[k]))

\* C9: a rule applies to a title only when one of its keywords is a word (for
\* a keyword of several words, a sequence of words) of the title, not when
\* the keyword only occurs inside a longer word.
C9_MatchesOnWords ==
    pc = "classified" =>
        \A r \in 1..Len(RuleTable) :
            cls = PairOf(r) => WordIn(RuleTable[r].kws, title)

\* the depth of the token at p: the tabs between the line break and it
IndentAt(t, p) == p - 1 - Max({b \in 0..(p - 1) : b = 0 \/ t[b] # "\t"})

\* C10: for every converted block, the new open tag and the new close tag
\* stand at the depth the original wrapper's open tag stood at.
C10_WrapperIndentation ==
    pc = "write" =>
        \A k \in 1..Len(conv) :
            conv[k].parsed =>
                /\ IndentAt(content, conv[k].outStart)
                      = IndentAt(scanned, conv[k].start)
                /\ IndentAt(content, conv[k].outEnd)
                      = IndentAt(scanned, conv[k].start)

=============================================================================
